---- MODULE Spec2Model ----
(***************************************************************************)
(* AdgPath: the path builder of the ADG canvas library.                    *)
(*                                                                         *)
(* The model follows adg-path.c: the flat cairo_path_data_t buffer, the    *)
(* current point, the "last" and "over" primitives (raw pointers into the  *)
(* buffer, modelled as indexes plus a dangling flag) and the pending       *)
(* chamfer/fillet operation.  A marker (adg-marker.c) refers to a segment   *)
(* of the path, and cpml-gobject.c duplicates primitives: memory is there  *)
(* a sequence of cells and a pointer an index into it.                     *)
(*                                                                         *)
(* Numbers are exact: a coordinate is x + rx * (sqrt(2)/2) with x and rx   *)
(* integers.  The CPML geometry the builder calls is modelled for straight *)
(* lines parallel to an axis, where lengths and trim points are integers;  *)
(* the environment requests chamfers and fillets on such operands only.    *)
(***************************************************************************)
EXTENDS Integers, Sequences, FiniteSets, TLC

VARIABLES array, alloc, cp_is_valid, cp, last, over, operation, call,
          marker, cpml, convex, caller, canvas, style

vars == <<array, alloc, cp_is_valid, cp, last, over, operation, call, marker, cpml,
          convex, caller, canvas, style>>

(***************************************************************************)
(* Bounds of the model                                                     *)
(***************************************************************************)
\* greatest buffer length (in cairo_path_data_t items) a caller's append may reach
MaxData == 7
\* the callers' points are corners of a square of this side
Side == 10
\* the chamfer delta and fillet radius that fit a side
Delta == 2
\* greatest buffer length a path made of lines only may reach
MaxLines == 8
\* greatest length of a path a caller reflects
MaxReflect == 4
\* greatest buffer length the append of a primitive the caller keeps may reach
MaxKept == 6
\* greatest buffer length a path whose lines are chamfered twice may reach
MaxTrimmed == 10
\* greatest buffer length a path appended whole and closed again may reach
MaxClosed == 8

(***************************************************************************)
(* Value types                                                             *)
(***************************************************************************)
Pair(x, y) == [x |-> x, y |-> y, rx |-> 0, ry |-> 0]

Origin == Pair(0, 0)

\* the points a caller passes
Pairs == {Pair(0, 0), Pair(Side, 0), Pair(Side, Side)}

\* the through point of caller's arcs and the control points of caller's curves
Through == Pair(0, Side)
Control1 == Pair(Side, 0)
Control2 == Pair(0, Side)

\* chamfer deltas and fillet radii a caller passes: one fits a side, the
\* other is the whole side
Deltas == {Delta, Side}

\* chamfer deltas that fit a side one at a time, and not one after the other
Trims == {Delta, Side - Delta}

CPML_MOVE == "MOVE"
CPML_LINE == "LINE"
CPML_ARC == "ARC"
CPML_CURVE == "CURVE"
CPML_CLOSE == "CLOSE"

PrimitiveTypes == {CPML_MOVE, CPML_LINE, CPML_ARC, CPML_CURVE, CPML_CLOSE}

ADG_ACTION_NONE == "NONE"
ADG_ACTION_CHAMFER == "CHAMFER"
ADG_ACTION_FILLET == "FILLET"

\* cairo_path_data_t is a union of a header and a point
Header(type, length) == [h |-> TRUE, type |-> type, length |-> length,
                         x |-> 0, y |-> 0, rx |-> 0, ry |-> 0]

Point(p) == [h |-> FALSE, type |-> "", length |-> 0,
             x |-> p.x, y |-> p.y, rx |-> p.rx, ry |-> p.ry]

\* cpml_pair_from_cairo
cpml_pair_from_cairo(d) == [x |-> d.x, y |-> d.y, rx |-> d.rx, ry |-> d.ry]

\* AdgPrimitive: data and org are pointers into the buffer (0 is NULL);
\* dangling tells the buffer they point into has been released by a realloc
NullPrimitive == [data |-> 0, org |-> 0, segment |-> "NULL", dangling |-> FALSE]

NoOperation == [action |-> ADG_ACTION_NONE, delta1 |-> 0, delta2 |-> 0]

\* cpml_primitive_type_get_n_points
cpml_primitive_type_get_n_points(type) ==
    CASE type = CPML_LINE -> 2
      [] type = CPML_ARC -> 3
      [] type = CPML_CURVE -> 4
      [] OTHER -> 0

_adg_primitive_length(type) ==
    IF type = CPML_CLOSE THEN 1
    ELSE IF type = CPML_MOVE THEN 2
    ELSE cpml_primitive_type_get_n_points(type)

(***************************************************************************)
(* The private data of a path as one record, for the helpers below         *)
(***************************************************************************)
State == [array |-> array, alloc |-> alloc, cp_is_valid |-> cp_is_valid,
          cp |-> cp, last |-> last, over |-> over, operation |-> operation,
          warnings |-> 0, resolved |-> "none"]

RECURSIVE nearest_pow(_, _)
nearest_pow(n, num) == IF n >= num THEN n ELSE nearest_pow(2 * n, num)

\* g_array_maybe_expand: the buffer grows to the next power of two; the
\* realloc may move it (moved), and then every pointer into it dangles
Expand(s, len, moved) ==
    IF len <= s.alloc THEN s
    ELSE LET stale(p) == IF moved /\ s.alloc > 0 /\ p.data # 0
                         THEN [p EXCEPT !.dangling = TRUE] ELSE p
         IN [s EXCEPT !.alloc = nearest_pow(1, len),
                      !.last = stale(s.last),
                      !.over = stale(s.over)]

\* g_array_append_vals
g_array_append_vals(s, data, moved) ==
    [Expand(s, Len(s.array) + Len(data), moved) EXCEPT !.array = s.array \o data]

Warn(s) == [s EXCEPT !.warnings = @ + 1]

(***************************************************************************)
(* CPML primitives, for straight lines parallel to an axis                 *)
(***************************************************************************)
Abs(n) == IF n < 0 THEN -n ELSE n

Sgn(n) == IF n < 0 THEN -1 ELSE IF n > 0 THEN 1 ELSE 0

\* the primitive a CpmlPrimitive pointing into the buffer denotes
PrimitiveAt(s, p) ==
    LET header == s.array[p.data]
    IN [type |-> header.type,
        org |-> cpml_pair_from_cairo(s.array[p.org]),
        end |-> cpml_pair_from_cairo(s.array[p.data + header.length - 1])]

\* the primitive to be appended: its data is the caller's, its org is a
\* copy of a point (orgcell = 0) or a cell of the buffer
Current(org, orgcell, data) ==
    [type |-> data[1].type, org |-> org, end |-> cpml_pair_from_cairo(data[data[1].length]),
     orgcell |-> orgcell]

\* a LINE with no length
NullLine == [type |-> CPML_LINE, org |-> Origin, end |-> Origin]

IsAxisLine(prim) ==
    /\ prim.type = CPML_LINE
    /\ prim.org.rx = 0 /\ prim.org.ry = 0 /\ prim.end.rx = 0 /\ prim.end.ry = 0
    /\ (prim.org.x = prim.end.x \/ prim.org.y = prim.end.y)

\* cpml_primitive_get_length of a line
cpml_primitive_get_length(prim) ==
    Abs(prim.end.x - prim.org.x) + Abs(prim.end.y - prim.org.y)

\* cpml_primitive_put_pair_at of a line, at position num / den
cpml_primitive_put_pair_at(prim, num, den) ==
    Pair(prim.org.x + ((prim.end.x - prim.org.x) * num) \div den,
         prim.org.y + ((prim.end.y - prim.org.y) * num) \div den)

\* cpml_primitive_put_vector_at of a line: the same vector at any position
cpml_primitive_put_vector_at(prim) ==
    [x |-> prim.end.x - prim.org.x, y |-> prim.end.y - prim.org.y, rx |-> 0, ry |-> 0]

\* cpml_vector_angle, in quarters of a turn, in (-2, 2]
cpml_vector_angle(v) ==
    IF v.y > 0 THEN 1
    ELSE IF v.y < 0 THEN -1
    ELSE IF v.x < 0 THEN 2 ELSE 0

\* cpml_vector_from_angle, the angle in eighths of a turn: the unit vector,
\* whose components on a diagonal are sqrt(2)/2
cpml_vector_from_angle(angle) ==
    LET a == angle % 8
    IN CASE a = 0 -> [x |-> 1, y |-> 0, rx |-> 0, ry |-> 0]
         [] a = 1 -> [x |-> 0, y |-> 0, rx |-> 1, ry |-> 1]
         [] a = 2 -> [x |-> 0, y |-> 1, rx |-> 0, ry |-> 0]
         [] a = 3 -> [x |-> 0, y |-> 0, rx |-> -1, ry |-> 1]
         [] a = 4 -> [x |-> -1, y |-> 0, rx |-> 0, ry |-> 0]
         [] a = 5 -> [x |-> 0, y |-> 0, rx |-> -1, ry |-> -1]
         [] a = 6 -> [x |-> 0, y |-> -1, rx |-> 0, ry |-> 0]
         [] a = 7 -> [x |-> 0, y |-> 0, rx |-> 1, ry |-> -1]

\* cpml_vector_normal: a quarter of a turn
cpml_vector_normal(v) == [x |-> -v.y, y |-> v.x, rx |-> -v.ry, ry |-> v.rx]

\* cpml_vector_set_length of a vector parallel to an axis, or of a diagonal
\* one, whose components are then multiples of sqrt(2)/2
cpml_vector_set_length(v, length) ==
    IF v.x = 0 /\ v.y = 0
    THEN [x |-> 0, y |-> 0, rx |-> Sgn(v.rx) * length, ry |-> Sgn(v.ry) * length]
    ELSE IF v.x = 0 \/ v.y = 0
    THEN [x |-> Sgn(v.x) * length, y |-> Sgn(v.y) * length, rx |-> 0, ry |-> 0]
    ELSE [x |-> 0, y |-> 0, rx |-> Sgn(v.x) * length, ry |-> Sgn(v.y) * length]

\* cpml_primitive_offset of a line: moved by offset along its normal
cpml_primitive_offset(prim, offset) ==
    LET normal == cpml_vector_set_length(
                      cpml_vector_normal(cpml_primitive_put_vector_at(prim)), offset)
    IN [prim EXCEPT !.org = Pair(prim.org.x + normal.x, prim.org.y + normal.y),
                    !.end = Pair(prim.end.x + normal.x, prim.end.y + normal.y)]

\* cpml_primitive_put_intersections of two lines parallel to an axis: none
\* when they are parallel to each other
cpml_primitive_put_intersections(primitive1, primitive2) ==
    LET v1 == cpml_primitive_put_vector_at(primitive1)
        v2 == cpml_primitive_put_vector_at(primitive2)
    IN IF v1.x * v2.y - v1.y * v2.x = 0 THEN {}
       ELSE IF v1.y = 0 THEN {Pair(primitive2.org.x, primitive1.org.y)}
       ELSE {Pair(primitive1.org.x, primitive2.org.y)}

(***************************************************************************)
(* The path builder                                                        *)
(***************************************************************************)
\* a store that leaves the current point defined after a CLOSE
StoreKeepingCurrentPoint(s, path_data, moved) ==
    LET length == path_data[1].length
        s2 == g_array_append_vals(s, SubSeq(path_data, 1, length), moved)
        header == Len(s2.array) - length + 1
    IN [s2 EXCEPT !.over = s2.last,
                  !.last = [data |-> header,
                            org |-> IF s2.cp_is_valid THEN header - 1 ELSE 0,
                            segment |-> "NULL", dangling |-> FALSE],
                  !.cp_is_valid = length > 0,
                  !.cp = IF length > 1
                         THEN cpml_pair_from_cairo(s2.array[header + length - 1])
                         ELSE s2.cp]

\* _adg_append_primitive after the pending operation has been executed: the
\* data is appended to the buffer, last shifts to over, the primitive
\* becomes last and its last point the current point
StorePrimitive(s, path_data, moved) ==
    LET length == path_data[1].length
        s2 == g_array_append_vals(s, SubSeq(path_data, 1, length), moved)
        header == Len(s2.array) - length + 1
    IN [s2 EXCEPT !.over = s2.last,
                  !.last = [data |-> header,
                            org |-> IF s2.cp_is_valid THEN header - 1 ELSE 0,
                            segment |-> "NULL", dangling |-> FALSE],
                  !.cp_is_valid = length > 1,
                  !.cp = IF length > 1
                         THEN cpml_pair_from_cairo(s2.array[header + length - 1])
                         ELSE s2.cp]

\* the adg_path_append of the connector, called by _adg_do_chamfer and
\* _adg_do_fillet once they have set the pending operation to NONE: its
\* _adg_do_operation has nothing to do
AppendConnector(s, type, pairs, moved) ==
    StorePrimitive(s, <<Header(type, Len(pairs) + 1)>> \o [i \in 1..Len(pairs) |-> Point(pairs[i])],
                   moved)

\* a convexity test that compares the two angles as cpml_vector_angle returns
\* them
ConvexWithoutTurn(primitive1, primitive2) ==
    cpml_vector_angle(cpml_primitive_put_vector_at(primitive2))
        - cpml_vector_angle(cpml_primitive_put_vector_at(primitive1)) > 2

_adg_is_convex(primitive1, primitive2) ==
    LET angle2 == cpml_vector_angle(cpml_primitive_put_vector_at(primitive2))
        a1 == cpml_vector_angle(cpml_primitive_put_vector_at(primitive1))
        angle1 == IF a1 > angle2 THEN a1 - 4 ELSE a1
    IN angle2 - angle1 > 2

\* cpml_primitive_set_point(last, -1, pair)
SetLastEnd(s, pair) ==
    [s EXCEPT !.array[s.last.data + s.array[s.last.data].length - 1] = Point(pair)]

\* cpml_primitive_set_point(current, 0, pair): the org of current is a local
\* copy, or the leading MOVE of the segment when a CLOSE is being resolved
SetCurrentOrg(s, current, pair) ==
    IF current.orgcell = 0 THEN s
    ELSE [s EXCEPT !.array[current.orgcell] = Point(pair)]

\* a chamfer that trims the last primitive from its start instead of its end
ChamferTrimmingFromStart(s, current, moved) ==
    LET lastp == PrimitiveAt(s, s.last)
        delta1 == s.operation.delta1
        len1 == cpml_primitive_get_length(lastp)
        delta2 == s.operation.delta2
        len2 == cpml_primitive_get_length(current)
    IN IF delta1 >= len1 THEN [Warn(s) EXCEPT !.resolved = "failed"]
       ELSE IF delta2 >= len2 THEN [Warn(s) EXCEPT !.resolved = "failed"]
       ELSE LET pair1 == cpml_primitive_put_pair_at(lastp, delta1, len1)
                pair == cpml_primitive_put_pair_at(current, delta2, len2)
                s1 == SetCurrentOrg(SetLastEnd(s, pair1), current, pair)
                s2 == [s1 EXCEPT !.operation.action = ADG_ACTION_NONE,
                                 !.resolved = "done"]
            IN AppendConnector(s2, CPML_LINE, <<pair>>, moved)

\* a chamfer that accepts a delta equal to the available length
ChamferAcceptingWholeLength(s, current, moved) ==
    LET lastp == PrimitiveAt(s, s.last)
        delta1 == s.operation.delta1
        len1 == cpml_primitive_get_length(lastp)
        delta2 == s.operation.delta2
        len2 == cpml_primitive_get_length(current)
    IN IF delta1 > len1 \/ len1 = 0 THEN [Warn(s) EXCEPT !.resolved = "failed"]
       ELSE IF delta2 > len2 \/ len2 = 0 THEN [Warn(s) EXCEPT !.resolved = "failed"]
       ELSE LET pair1 == cpml_primitive_put_pair_at(lastp, len1 - delta1, len1)
                pair == cpml_primitive_put_pair_at(current, delta2, len2)
                s1 == SetCurrentOrg(SetLastEnd(s, pair1), current, pair)
                s2 == [s1 EXCEPT !.operation.action = ADG_ACTION_NONE,
                                 !.resolved = "done"]
            IN AppendConnector(s2, CPML_LINE, <<pair>>, moved)

_adg_do_chamfer(s, current, moved) ==
    LET lastp == PrimitiveAt(s, s.last)
        delta1 == s.operation.delta1
        len1 == cpml_primitive_get_length(lastp)
        delta2 == s.operation.delta2
        len2 == cpml_primitive_get_length(current)
    IN IF delta1 >= len1 THEN [Warn(s) EXCEPT !.resolved = "failed"]
       ELSE IF delta2 >= len2 THEN [Warn(s) EXCEPT !.resolved = "failed"]
       ELSE LET pair1 == cpml_primitive_put_pair_at(lastp, len1 - delta1, len1)
                pair == cpml_primitive_put_pair_at(current, delta2, len2)
                s1 == SetCurrentOrg(SetLastEnd(s, pair1), current, pair)
                s2 == [s1 EXCEPT !.operation.action = ADG_ACTION_NONE,
                                 !.resolved = "done"]
            IN AppendConnector(s2, CPML_LINE, <<pair>>, moved)

\* a fillet that always offsets the two primitives to the same side
FilletOnOneSide(s, current, moved) ==
    LET lastp == PrimitiveAt(s, s.last)
        radius == s.operation.delta1
        offset == -radius
        current_dup == cpml_primitive_offset(current, offset)
        last_dup == cpml_primitive_offset(lastp, offset)
        intersections == cpml_primitive_put_intersections(current_dup, last_dup)
    IN IF intersections = {} THEN [Warn(s) EXCEPT !.resolved = "failed"]
       ELSE LET center == CHOOSE c \in intersections : TRUE
                \* the start point of the fillet
                vector0 == cpml_vector_normal(cpml_vector_set_length(
                               cpml_primitive_put_vector_at(last_dup), offset))
                p0 == Pair(center.x - vector0.x, center.y - vector0.y)
                \* the mid point of the fillet
                vector1 == cpml_vector_set_length(
                               [x |-> current.org.x - center.x,
                                y |-> current.org.y - center.y,
                                rx |-> 0, ry |-> 0], radius)
                p1 == [x |-> center.x + vector1.x, y |-> center.y + vector1.y,
                       rx |-> vector1.rx, ry |-> vector1.ry]
                \* the end point of the fillet
                vector2 == cpml_vector_normal(cpml_vector_set_length(
                               cpml_primitive_put_vector_at(current_dup), offset))
                p2 == Pair(center.x - vector2.x, center.y - vector2.y)
                s1 == SetCurrentOrg(SetLastEnd(s, p0), current, p2)
                s2 == [s1 EXCEPT !.operation.action = ADG_ACTION_NONE,
                                 !.resolved = "done"]
            IN AppendConnector(s2, CPML_ARC, <<p1, p2>>, moved)

\* a fillet that fails without a diagnostic
FilletFailingSilently(s, current, moved) ==
    LET lastp == PrimitiveAt(s, s.last)
        radius == s.operation.delta1
        offset == IF _adg_is_convex(lastp, current) THEN -radius ELSE radius
        current_dup == cpml_primitive_offset(current, offset)
        last_dup == cpml_primitive_offset(lastp, offset)
        intersections == cpml_primitive_put_intersections(current_dup, last_dup)
    IN IF intersections = {} THEN [s EXCEPT !.resolved = "failed"]
       ELSE LET center == CHOOSE c \in intersections : TRUE
                \* the start point of the fillet
                vector0 == cpml_vector_normal(cpml_vector_set_length(
                               cpml_primitive_put_vector_at(last_dup), offset))
                p0 == Pair(center.x - vector0.x, center.y - vector0.y)
                \* the mid point of the fillet
                vector1 == cpml_vector_set_length(
                               [x |-> current.org.x - center.x,
                                y |-> current.org.y - center.y,
                                rx |-> 0, ry |-> 0], radius)
                p1 == [x |-> center.x + vector1.x, y |-> center.y + vector1.y,
                       rx |-> vector1.rx, ry |-> vector1.ry]
                \* the end point of the fillet
                vector2 == cpml_vector_normal(cpml_vector_set_length(
                               cpml_primitive_put_vector_at(current_dup), offset))
                p2 == Pair(center.x - vector2.x, center.y - vector2.y)
                s1 == SetCurrentOrg(SetLastEnd(s, p0), current, p2)
                s2 == [s1 EXCEPT !.operation.action = ADG_ACTION_NONE,
                                 !.resolved = "done"]
            IN AppendConnector(s2, CPML_ARC, <<p1, p2>>, moved)

_adg_do_fillet(s, current, moved) ==
    LET lastp == PrimitiveAt(s, s.last)
        radius == s.operation.delta1
        offset == IF _adg_is_convex(lastp, current) THEN -radius ELSE radius
        current_dup == cpml_primitive_offset(current, offset)
        last_dup == cpml_primitive_offset(lastp, offset)
        intersections == cpml_primitive_put_intersections(current_dup, last_dup)
    IN IF intersections = {} THEN [Warn(s) EXCEPT !.resolved = "failed"]
       ELSE LET center == CHOOSE c \in intersections : TRUE
                \* the start point of the fillet
                vector0 == cpml_vector_normal(cpml_vector_set_length(
                               cpml_primitive_put_vector_at(last_dup), offset))
                p0 == Pair(center.x - vector0.x, center.y - vector0.y)
                \* the mid point of the fillet
                vector1 == cpml_vector_set_length(
                               [x |-> current.org.x - center.x,
                                y |-> current.org.y - center.y,
                                rx |-> 0, ry |-> 0], radius)
                p1 == [x |-> center.x + vector1.x, y |-> center.y + vector1.y,
                       rx |-> vector1.rx, ry |-> vector1.ry]
                \* the end point of the fillet
                vector2 == cpml_vector_normal(cpml_vector_set_length(
                               cpml_primitive_put_vector_at(current_dup), offset))
                p2 == Pair(center.x - vector2.x, center.y - vector2.y)
                s1 == SetCurrentOrg(SetLastEnd(s, p0), current, p2)
                s2 == [s1 EXCEPT !.operation.action = ADG_ACTION_NONE,
                                 !.resolved = "done"]
            IN AppendConnector(s2, CPML_ARC, <<p1, p2>>, moved)

_adg_do_action(s, action, primitive, moved) ==
    CASE action = ADG_ACTION_NONE -> s
      [] action = ADG_ACTION_CHAMFER -> _adg_do_chamfer(s, primitive, moved)
      [] action = ADG_ACTION_FILLET -> _adg_do_fillet(s, primitive, moved)

_adg_do_operation(s, path_data, moved) ==
    _adg_do_action(s, s.operation.action, Current(s.cp, 0, path_data), moved)

\* moved1: the realloc of the connector's append moves the buffer;
\* moved2: the realloc of this primitive's append does
_adg_append_primitive(s, path_data, moved1, moved2) ==
    StorePrimitive(_adg_do_operation(s, path_data, moved1), path_data, moved2)

\* an append that drops the pending operation when a pair is missing
AppendArrayDroppingPending(s, type, pairs, moved1, moved2) ==
    LET length == _adg_primitive_length(type)
    IN IF length = 0 THEN s
       ELSE IF Len(pairs) < length - 1 THEN [Warn(s) EXCEPT !.operation = NoOperation]
       ELSE _adg_append_primitive(
                s, <<Header(type, Len(pairs) + 1)>> \o [i \in 1..Len(pairs) |-> Point(pairs[i])],
                moved1, moved2)

\* pairs: the pairs given before the first NULL one
adg_path_append_array(s, type, pairs, moved1, moved2) ==
    LET length == _adg_primitive_length(type)
    IN IF length = 0 THEN s
       ELSE IF Len(pairs) < length - 1 THEN Warn(s)
       ELSE _adg_append_primitive(
                s, <<Header(type, Len(pairs) + 1)>> \o [i \in 1..Len(pairs) |-> Point(pairs[i])],
                moved1, moved2)

\* cpml_segment_from_cairo and cpml_segment_next until the last segment:
\* the header of the last MOVE of the buffer (0 if there is none)
LastSegment(arr) ==
    LET moves == {i \in 1..Len(arr) : arr[i].h /\ arr[i].type = CPML_MOVE}
    IN IF moves = {} THEN 0 ELSE CHOOSE i \in moves : \A j \in moves : j <= i

\* the special case of _adg_append_operation, first half: one more item is
\* allocated and the close path is converted to a line-to primitive
ConvertClose(s, moved) ==
    LET length == Len(s.array)
        \* g_array_set_size(length + 1)
        s1 == [Expand(s, length + 1, moved) EXCEPT !.array = s.array \o <<Header("", 0)>>]
        segment == LastSegment(s.array)
    IN [s1 EXCEPT !.array[length] = Header(CPML_LINE, 2),
                  !.array[length + 1] = s.array[segment + 1],
                  !.last = [data |-> length, org |-> length - 1,
                            segment |-> "local", dangling |-> FALSE]]

\* cpml_primitive_from_segment: the first primitive of the last segment,
\* its org being the point of the leading MOVE
FirstPrimitive(s) ==
    LET segment == LastSegment(s.array)
        first == segment + s.array[segment].length
    IN Current(cpml_pair_from_cairo(s.array[segment + 1]), segment + 1,
               SubSeq(s.array, first, first + s.array[first].length - 1))

ResolveOnClose(s, action, moved1, moved2) ==
    IF ~(Len(s.array) > 1) THEN Warn(s)
    ELSE LET s2 == ConvertClose(s, moved1)
         IN _adg_do_action(s2, action, FirstPrimitive(s2), moved2)

\* a request that replaces the operation already pending
RequestReplacingPending(s, action, delta1, delta2, moved1, moved2) ==
    IF s.last.data = 0 THEN Warn(s)
    ELSE IF action = ADG_ACTION_NONE THEN s
    ELSE LET s1 == IF action = ADG_ACTION_CHAMFER
                   THEN [s EXCEPT !.operation = [action |-> action, delta1 |-> delta1,
                                                 delta2 |-> delta2]]
                   ELSE [s EXCEPT !.operation.action = action,
                                  !.operation.delta1 = delta1]
         IN IF s1.array[s1.last.data].type = CPML_CLOSE
            THEN ResolveOnClose(s1, action, moved1, moved2)
            ELSE s1

\* for a fillet delta1 is the radius: the two are members of one union
_adg_append_operation(s, action, delta1, delta2, moved1, moved2) ==
    IF s.last.data = 0 THEN Warn(s)
    ELSE IF s.operation.action # ADG_ACTION_NONE THEN Warn(s)
    ELSE IF action = ADG_ACTION_NONE THEN s
    ELSE LET s1 == IF action = ADG_ACTION_CHAMFER
                   THEN [s EXCEPT !.operation = [action |-> action, delta1 |-> delta1,
                                                 delta2 |-> delta2]]
                   ELSE [s EXCEPT !.operation.action = action,
                                  !.operation.delta1 = delta1]
         IN IF s1.array[s1.last.data].type = CPML_CLOSE
            THEN ResolveOnClose(s1, action, moved1, moved2)
            ELSE s1

\* adg_path_append_segment and adg_path_append_cpml_path: the data is
\* appended as it is; current point, last and over are left alone
adg_path_append_vals(s, data, moved) ==
    g_array_append_vals(s, data, moved)

\* the items of the first segment of the buffer: from the first MOVE up to
\* the next one
FirstSegment(arr) ==
    LET moves == {i \in 2..Len(arr) : arr[i].h /\ arr[i].type = CPML_MOVE}
        next == IF moves = {} THEN Len(arr) + 1
                ELSE CHOOSE i \in moves : \A j \in moves : i <= j
    IN SubSeq(arr, 1, next - 1)

\* cpml_segment_reverse of a segment made of a MOVE and lines: the same
\* points from the last to the first
cpml_segment_reverse(data) ==
    [i \in 1..Len(data) |->
        IF data[i].h THEN IF i = 1 THEN Header(CPML_MOVE, 2) ELSE Header(CPML_LINE, 2)
        ELSE data[Len(data) + 2 - i]]

\* cpml_segment_transform by the matrix of cairo_matrix_init_scale(1, -1)
cpml_segment_transform(data) ==
    [i \in 1..Len(data) |-> IF data[i].h THEN data[i] ELSE [data[i] EXCEPT !.y = -@]]

\* adg_path_reflect with a NULL vector: around the x axis
adg_path_reflect_segment(s, moved) ==
    LET segment == FirstSegment(s.array)
        dup_segment == cpml_segment_transform(cpml_segment_reverse(segment))
    IN adg_path_append_vals(s, [dup_segment EXCEPT ![1].type = CPML_LINE], moved)

(***************************************************************************)
(* What the callers do                                                     *)
(***************************************************************************)
\* the two operands are lines the geometry above covers
CanResolve(s, action, current) ==
    /\ s.last.data # 0 /\ s.last.org # 0 /\ ~s.last.dangling
    /\ ~s.array[s.last.org].h
    /\ IsAxisLine(PrimitiveAt(s, s.last))
    /\ IsAxisLine(current)
    /\ action = ADG_ACTION_FILLET =>
           /\ cpml_primitive_get_length(PrimitiveAt(s, s.last)) > 0
           /\ cpml_primitive_get_length(current) > 0
           /\ PrimitiveAt(s, s.last).end = current.org

\* a request that fails at once, or one on a line, or one on a CLOSE that
\* ends a segment whose closing line and first primitive are such lines
CanRequest(s, action) ==
    IF s.last.data = 0 \/ s.operation.action # ADG_ACTION_NONE THEN TRUE
    ELSE IF s.last.dangling THEN FALSE
    ELSE IF s.array[s.last.data].type = CPML_LINE
    THEN s.last.org # 0 /\ IsAxisLine(PrimitiveAt(s, s.last))
    ELSE IF s.array[s.last.data].type = CPML_CLOSE /\ s.last.data = Len(s.array)
    THEN IF Len(s.array) = 1 THEN TRUE
         ELSE IF LastSegment(s.array) = 0 \/ s.array[Len(s.array) - 1].h THEN FALSE
         ELSE CanResolve(ConvertClose(s, FALSE), action,
                         FirstPrimitive(ConvertClose(s, FALSE)))
    ELSE FALSE

\* the pairs of a call of adg_path_append: all the pairs the type needs, or
\* fewer (a NULL pair ends the list)
Needed(type, pair) ==
    CASE type = CPML_CLOSE -> << >>
      [] type = CPML_ARC -> <<Through, pair>>
      [] type = CPML_CURVE -> <<Control1, Control2, pair>>
      [] OTHER -> <<pair>>

Given(type) ==
    LET all == {Needed(type, pair) : pair \in Pairs}
    IN all \cup {SubSeq(Needed(type, Origin), 1, n) : n \in 0..(_adg_primitive_length(type) - 2)}

\* no convexity test has been made
NoConvex == [primitive1 |-> NullLine, primitive2 |-> NullLine, result |-> << >>]

\* what is not the path, its marker or the primitives a caller duplicates
Aside == UNCHANGED <<convex, canvas, style>>

\* the call returns; no call is made on a path that has been destroyed
Return(s, op, type, pairs) ==
    /\ call.op # "destroy"
    /\ array' = s.array
    /\ alloc' = s.alloc
    /\ cp_is_valid' = s.cp_is_valid
    /\ cp' = s.cp
    /\ last' = s.last
    /\ over' = s.over
    /\ operation' = s.operation
    /\ call' = [op |-> op, type |-> type, pairs |-> pairs,
                warnings |-> s.warnings, resolved |-> s.resolved]

\* a call on the path, that leaves the marker and the primitives alone
Commit(s, op, type, pairs) ==
    /\ Return(s, op, type, pairs)
    /\ UNCHANGED <<marker, cpml, caller>>
    /\ Aside

\* adg_marker_init
NewMarker ==
    [path |-> "NULL", n_segment |-> 0,
     segment |-> [data |-> 0, num_data |-> 0], backup_segment |-> << >>]

\* the memory the primitives to duplicate live in: a segment MOVE, LINE
\* and its CpmlSegment struct, then one with no data
SourceMemory ==
    <<Header(CPML_MOVE, 2), Point(Origin), Header(CPML_LINE, 2), Point(Pair(Side, 0))>>

SourceSegments == <<[data |-> 1, num_data |-> 4], [data |-> 0, num_data |-> 0]>>

\* no primitive: the three pointers are NULL
NullCpmlPrimitive == [org |-> 0, data |-> 0, segment |-> 0]

\* the primitives a caller duplicates: the LINE of the segment, with any of
\* its pointers NULL
Sources ==
    {[org |-> org, data |-> data, segment |-> segment] :
        org \in {0, 2}, data \in {0, 3}, segment \in {0, 1, 2}}

NewCpml(src) ==
    [memory |-> SourceMemory, segments |-> SourceSegments, src |-> src,
     kind |-> "none", dst |-> NullCpmlPrimitive,
     at_dup |-> [org |-> << >>, data |-> << >>]]

\* the paddings of a new canvas
DefaultPadding == 15

\* cairo_matrix_t
Matrix(xx, yx, xy, yy, x0, y0) ==
    [xx |-> xx, yx |-> yx, xy |-> xy, yy |-> yy, x0 |-> x0, y0 |-> y0]

IdentityMatrix == Matrix(1, 0, 0, 1, 0, 0)

\* CpmlExtents
Extents(x, y, width, height) ==
    [is_defined |-> TRUE, org |-> Pair(x, y), size |-> Pair(width, height)]

UndefinedExtents == [is_defined |-> FALSE, org |-> Origin, size |-> Origin]

\* adg_canvas_init; global is the global matrix of the entity, extents its
\* extents, map the translation of the global map of the title block;
\* op and content keep the last call and the extents its arrange found
NewCanvas ==
    [size |-> Origin, title_block |-> FALSE,
     top_padding |-> DefaultPadding, right_padding |-> DefaultPadding,
     bottom_padding |-> DefaultPadding, left_padding |-> DefaultPadding,
     global |-> IdentityMatrix, extents |-> UndefinedExtents, map |-> Origin,
     op |-> "init", content |-> UndefinedExtents]

\* a value of a property of a style or of a table: a number or a dress
Number(n) == [number |-> n, dress |-> ""]

Dress(dress) == [number |-> 0, dress |-> dress]

\* no style and no table is being used; otherwise property is the property
\* the caller works on, value its value, and op, given and previous keep
\* the last call, the value it gave and the value the property had
NoStyle ==
    [property |-> "", value |-> Number(0), op |-> "none", given |-> Number(0),
     previous |-> Number(0)]

\* the caller of adg_path_append_primitive holds no primitive
NoCaller == [NewCpml(NullCpmlPrimitive) EXCEPT !.memory = << >>, !.segments = << >>]

InitAside ==
    /\ convex = NoConvex
    /\ caller = NoCaller
    /\ canvas = NewCanvas
    /\ style = NoStyle

Init ==
    /\ array = << >>
    /\ alloc = 0
    /\ cp_is_valid = FALSE
    /\ cp = Origin
    /\ last = NullPrimitive
    /\ over = NullPrimitive
    /\ operation = NoOperation
    /\ call = [op |-> "new", type |-> "", pairs |-> << >>,
               warnings |-> 0, resolved |-> "none"]
    /\ marker = NewMarker
    /\ cpml = NewCpml(NullCpmlPrimitive)
    /\ InitAside

\* a call of adg_path_append with a type among types, on a buffer that
\* does not grow beyond max items
AppendOf(types, max) ==
    \E type \in types : \E pairs \in Given(type) : \E moved1, moved2 \in BOOLEAN :
        /\ Len(array) + _adg_primitive_length(type) <= max
        /\ (operation.action # ADG_ACTION_NONE /\ Len(pairs) = _adg_primitive_length(type) - 1) =>
               /\ type = CPML_LINE
               /\ CanResolve(State, operation.action,
                             Current(cp, 0, <<Header(type, 2), Point(pairs[1])>>))
        /\ Commit(adg_path_append_array(State, type, pairs, moved1, moved2), "append", type, pairs)

\* adg_path_append, adg_path_move_to, adg_path_line_to, adg_path_arc_to,
\* adg_path_curve_to and adg_path_close
adg_path_append == AppendOf(PrimitiveTypes, MaxData)

\* adg_path_move_to and adg_path_line_to alone, on a longer path
adg_path_line_to == AppendOf({CPML_MOVE, CPML_LINE}, MaxLines)

\* a call of adg_path_chamfer with deltas among deltas
ChamferOf(deltas) ==
    \E delta1, delta2 \in deltas : \E moved1, moved2 \in BOOLEAN :
        /\ CanRequest(State, ADG_ACTION_CHAMFER)
        /\ Commit(_adg_append_operation(State, ADG_ACTION_CHAMFER, delta1, delta2,
                                        moved1, moved2), "chamfer", "", << >>)

adg_path_chamfer == ChamferOf(Deltas)

adg_path_fillet ==
    \E radius \in Deltas : \E moved1, moved2 \in BOOLEAN :
        /\ CanRequest(State, ADG_ACTION_FILLET)
        /\ Commit(_adg_append_operation(State, ADG_ACTION_FILLET, radius, 0,
                                        moved1, moved2), "fillet", "", << >>)

_adg_clear_operation(s) ==
    LET s1 == IF s.operation.action # ADG_ACTION_NONE
              THEN [Warn(s) EXCEPT !.operation.action = ADG_ACTION_NONE]
              ELSE s
    IN [s1 EXCEPT !.cp_is_valid = FALSE,
                  !.last.data = 0,
                  !.over.data = 0]

\* a clear that does not report the operation still pending
ClearSilently(s) ==
    [_adg_clear_operation(s) EXCEPT !.array = << >>, !.warnings = 0]

\* g_array_set_size(array, 0) keeps the allocated buffer
_adg_clear(s) ==
    [_adg_clear_operation(s) EXCEPT !.array = << >>]

\* g_array_free(array, TRUE) releases the buffer
_adg_finalize(s) ==
    [_adg_clear_operation(s) EXCEPT !.array = << >>, !.alloc = 0]

\* adg_model_clear on a path
adg_model_clear ==
    Commit(_adg_clear(State), "clear", "", << >>)

(***************************************************************************)
(* The marker and the segment of the path it is applied to                 *)
(***************************************************************************)
\* the headers of the MOVEs that start the segments of a buffer
SegmentStarts(arr) == {i \in 1..Len(arr) : arr[i].h /\ arr[i].type = CPML_MOVE}

\* the n-th segment of a buffer that has one, 1 being the first: from its
\* MOVE up to the next one
NthSegment(arr, n) ==
    LET starts == SegmentStarts(arr)
        data == CHOOSE i \in starts : Cardinality({j \in starts : j <= i}) = n
        later == {j \in starts : j > data}
        next == IF later = {} THEN Len(arr) + 1
                ELSE CHOOSE j \in later : \A k \in later : j <= k
    IN [data |-> data, num_data |-> next - data]

NotFound == [found |-> FALSE, segment |-> [data |-> 0, num_data |-> 0]]

\* adg_path_get_segment(path, segment, n): the segment number 0 is the
\* undefined one; whether asking for it fails or is served with the first
\* segment is the choice of the callee (lenient)
adg_path_get_segment(arr, n, lenient) ==
    IF n = 0
    THEN IF lenient /\ SegmentStarts(arr) # {}
         THEN [found |-> TRUE, segment |-> NthSegment(arr, 1)]
         ELSE NotFound
    ELSE IF n <= Cardinality(SegmentStarts(arr))
    THEN [found |-> TRUE, segment |-> NthSegment(arr, n)]
    ELSE NotFound

\* adg_segment_deep_dup: the items of the segment, in memory of their own
adg_segment_deep_dup(arr, segment) ==
    SubSeq(arr, segment.data, segment.data + segment.num_data - 1)

\* adg_segment_deep_copy(segment, backup): the items of the backup are
\* written over the ones of the segment
adg_segment_deep_copy(arr, segment, backup) ==
    [i \in 1..Len(arr) |->
        IF i >= segment.data /\ i < segment.data + Len(backup)
        THEN backup[i - segment.data + 1] ELSE arr[i]]

\* m: the private data of the marker together with the buffer of its path
set_n_segment(m, n_segment, lenient) ==
    IF n_segment = m.marker.n_segment THEN m
    ELSE LET \* restore the original segment
             m1 == IF m.marker.n_segment > 0
                   THEN [m EXCEPT !.array = adg_segment_deep_copy(
                                      m.array, m.marker.segment, m.marker.backup_segment)]
                   ELSE m
             m2 == [m1 EXCEPT !.marker.backup_segment = << >>]
         IN IF n_segment > 0
            THEN LET m3 == [m2 EXCEPT !.marker.n_segment = 0]
                     got == adg_path_get_segment(m3.array, m3.marker.n_segment, lenient)
                 IN IF m3.marker.path = "NULL" THEN m3
                    ELSE IF ~got.found THEN m3
                    ELSE [m3 EXCEPT !.marker.segment = got.segment,
                                    !.marker.backup_segment =
                                        adg_segment_deep_dup(m3.array, got.segment),
                                    !.marker.n_segment = n_segment]
            ELSE [m2 EXCEPT !.marker.n_segment = n_segment]

set_path(m, path, lenient) ==
    IF path = m.marker.path THEN m
    ELSE LET m1 == IF m.marker.path # "NULL" THEN set_n_segment(m, 0, lenient) ELSE m
             m2 == [m1 EXCEPT !.marker.path = path]
         IN IF path # "NULL" THEN set_n_segment(m2, 1, lenient) ELSE m2

\* the weak reference callback
unset_path(m) ==
    IF m.marker.path # "NULL"
    THEN set_n_segment([m EXCEPT !.marker.path = "NULL"], 0, FALSE)
    ELSE m

Marked == [marker |-> marker, array |-> array]

\* the segment numbers a caller asks for
Numbers == 0..(MaxLines \div 4)

\* the call record keeps the path given as its type
adg_marker_set_path ==
    \E path \in {"NULL", "path"} : \E lenient \in BOOLEAN :
        LET m == set_path(Marked, path, lenient)
        IN /\ Return([State EXCEPT !.array = m.array], "set_path", path, << >>)
           /\ marker' = m.marker
           /\ UNCHANGED <<cpml, caller>>
           /\ Aside

\* the call record keeps the number given as the x of a pair
adg_marker_set_n_segment ==
    \E n_segment \in Numbers : \E lenient \in BOOLEAN :
        LET m == set_n_segment(Marked, n_segment, lenient)
        IN /\ Return([State EXCEPT !.array = m.array], "set_n_segment", "",
                     <<Pair(n_segment, 0)>>)
           /\ marker' = m.marker
           /\ UNCHANGED <<cpml, caller>>
           /\ Aside

\* the last reference to the path is dropped: the weak references are
\* notified, then the path is finalized
adg_path_destroy ==
    LET m == unset_path(Marked)
    IN /\ Return(_adg_finalize([State EXCEPT !.array = m.array]), "destroy", "", << >>)
       /\ marker' = m.marker
       /\ UNCHANGED <<cpml, caller>>
       /\ Aside

\* the path is built while no marker is applied to it
BuildUnmarked ==
    /\ marker.path = "NULL"
    /\ adg_path_line_to

NextMarker ==
    \/ BuildUnmarked
    \/ adg_marker_set_path
    \/ adg_marker_set_n_segment
    \/ adg_path_destroy

SpecMarker == Init /\ [][NextMarker]_vars

(***************************************************************************)
(* The duplication of primitives                                           *)
(***************************************************************************)
\* the cells a primitive refers to: its org and its data
ContentOf(memory, primitive) ==
    [org |-> IF primitive.org = 0 THEN << >> ELSE <<memory[primitive.org]>>,
     data |-> IF primitive.data = 0 THEN << >>
              ELSE SubSeq(memory, primitive.data,
                          primitive.data + memory[primitive.data].length - 1)]

\* a deep duplication that copies the org and shares the data
DeepDupSharingData(c) ==
    LET src == c.src
        org_size == IF src.org # 0 THEN 1 ELSE 0
        ptr == Len(c.memory) + 1
    IN [c EXCEPT !.memory = c.memory \o SubSeq(c.memory, src.org, src.org + org_size - 1),
                 !.dst = [org |-> IF org_size > 0 THEN ptr ELSE 0,
                          data |-> src.data, segment |-> src.segment],
                 !.kind = "deep",
                 !.at_dup = ContentOf(c.memory, src)]

\* cpml_primitive_deep_dup: org, data and a segment with its first
\* primitive only are copied into one new chunk of memory
DeepDup(c) ==
    LET src == c.src
        org_size == IF src.org # 0 THEN 1 ELSE 0
        data_size == IF src.data # 0 THEN c.memory[src.data].length ELSE 0
        has_segment == src.segment # 0 /\ c.segments[src.segment].data # 0
        segment_data == IF has_segment THEN c.segments[src.segment].data ELSE 0
        segment_size == IF has_segment THEN c.memory[segment_data].length ELSE 0
        ptr == Len(c.memory) + 1
    IN [c EXCEPT !.memory = c.memory
                            \o SubSeq(c.memory, src.org, src.org + org_size - 1)
                            \o SubSeq(c.memory, src.data, src.data + data_size - 1)
                            \o SubSeq(c.memory, segment_data, segment_data + segment_size - 1),
                 !.segments = IF has_segment
                              THEN c.segments \o <<[c.segments[src.segment] EXCEPT
                                                       !.data = ptr + org_size + data_size]>>
                              ELSE c.segments,
                 !.dst = [org |-> IF org_size > 0 THEN ptr ELSE 0,
                          data |-> IF data_size > 0 THEN ptr + org_size ELSE 0,
                          segment |-> IF has_segment THEN Len(c.segments) + 1 ELSE 0],
                 !.kind = "deep",
                 !.at_dup = ContentOf(c.memory, src)]

\* cpml_primitive_dup: the struct is copied, its pointers with it
ShallowDup(c) ==
    [c EXCEPT !.dst = c.src, !.kind = "shallow", !.at_dup = ContentOf(c.memory, c.src)]

\* the primitives of a caller that holds no duplicate
InitDup ==
    /\ array = << >>
    /\ alloc = 0
    /\ cp_is_valid = FALSE
    /\ cp = Origin
    /\ last = NullPrimitive
    /\ over = NullPrimitive
    /\ operation = NoOperation
    /\ call = [op |-> "new", type |-> "", pairs |-> << >>,
               warnings |-> 0, resolved |-> "none"]
    /\ marker = NewMarker
    /\ cpml \in {NewCpml(src) : src \in Sources}
    /\ InitAside

PathAlone ==
    /\ UNCHANGED <<array, alloc, cp_is_valid, cp, last, over, operation, call, marker,
                   caller>>
    /\ Aside

cpml_primitive_dup ==
    /\ cpml.kind = "none"
    /\ cpml' = ShallowDup(cpml)
    /\ PathAlone

cpml_primitive_deep_dup ==
    /\ cpml.kind = "none"
    /\ cpml' = DeepDup(cpml)
    /\ PathAlone

\* the caller writes a point of the source primitive: its org or the last
\* point of its data
cpml_primitive_set_point ==
    \E pair \in Pairs : \E cell \in {cpml.src.org, cpml.src.data + 1} :
        /\ cell \notin {0, 1}
        /\ cpml' = [cpml EXCEPT !.memory[cell] = Point(pair)]
        /\ PathAlone

\* g_free of the duplicate: the chunk it was allocated in is released
FreeDup ==
    /\ cpml.kind # "none"
    /\ cpml' = [cpml EXCEPT !.memory = SubSeq(cpml.memory, 1, Len(SourceMemory)),
                            !.segments = SubSeq(cpml.segments, 1, Len(SourceSegments)),
                            !.dst = NullCpmlPrimitive,
                            !.kind = "none",
                            !.at_dup = [org |-> << >>, data |-> << >>]]
    /\ PathAlone

NextDup ==
    \/ cpml_primitive_dup
    \/ cpml_primitive_deep_dup
    \/ cpml_primitive_set_point
    \/ FreeDup

SpecDup == InitDup /\ [][NextDup]_vars

\* the primitives a caller hands to adg_path_append_primitive: a LINE or a
\* CLOSE, its org NULL (<< >>) or a point
Primitives ==
    {[org |-> org, data |-> data] :
        org \in {<< >>} \cup {<<pair>> : pair \in Pairs},
        data \in {<<Header(CPML_CLOSE, 1)>>}
                  \cup {<<Header(CPML_LINE, 2), Point(pair)>> : pair \in Pairs}}

\* the pairs of the data of a primitive
PairsOf(data) == [i \in 1..(Len(data) - 1) |-> cpml_pair_from_cairo(data[i + 1])]

\* the primitive of a caller in memory of its own: the org, if any, then
\* the data
InMemory(primitive) ==
    [NoCaller EXCEPT !.memory = [i \in 1..Len(primitive.org) |-> Point(primitive.org[i])]
                                \o primitive.data,
                     !.src = [org |-> Len(primitive.org), data |-> Len(primitive.org) + 1,
                              segment |-> 0]]

\* an operand that is the primitive of the caller itself
OperandOfCaller(c) == [org |-> c.src.org, data |-> c.src.data]

\* the operand of the pending operation: its data is the data of the
\* duplicate adg_path_append_primitive made, its org the current_org of
\* _adg_do_operation, here the cell after the duplicate
Operand(c) == [org |-> Len(c.memory) + 1, data |-> c.dst.data]

\* the memory of the caller when adg_path_append_primitive returns: the
\* primitive is duplicated, the operation writes the start point of its
\* operand, the duplicate is freed
AfterAppend(c, after) ==
    LET dup == DeepDup(c)
        current == Operand(dup)
        memory == dup.memory \o <<Point(cp)>>
        written == IF after.resolved = "done"
                   THEN [memory EXCEPT ![current.org] = after.array[after.last.data - 1]]
                   ELSE memory
    IN [c EXCEPT !.memory = SubSeq(written, 1, Len(c.memory))]

\* a call of adg_path_append_primitive with one of primitives, on a buffer
\* that does not grow beyond max items; the caller keeps its primitive
\* (keep) or releases it as soon as the call has returned. The call record
\* keeps the org (if any) in front of the pairs of the data
AppendPrimitive(keep, primitives, max) ==
    \E primitive \in primitives : \E moved1, moved2 \in BOOLEAN :
        LET c == InMemory(primitive)
            current == Operand(DeepDup(c))
            path_data == SubSeq(DeepDup(c).memory, current.data,
                                current.data + DeepDup(c).memory[current.data].length - 1)
            after == _adg_append_primitive(State, path_data, moved1, moved2)
            fails == IF primitive.org = << >> THEN TRUE ELSE primitive.org[1] # cp
        IN /\ Len(array) + Len(primitive.data) <= max
           /\ (operation.action # ADG_ACTION_NONE /\ primitive.org = <<cp>>) =>
                  /\ primitive.data[1].type = CPML_LINE
                  /\ CanResolve(State, operation.action, Current(cp, 0, primitive.data))
           /\ Return(IF fails THEN Warn(State) ELSE after,
                     "append_primitive", primitive.data[1].type,
                     primitive.org \o PairsOf(primitive.data))
           /\ caller' = IF ~keep THEN NoCaller
                         ELSE IF fails THEN c
                         ELSE AfterAppend(c, after)
           /\ UNCHANGED <<marker, cpml>>
           /\ Aside

adg_path_append_primitive == AppendPrimitive(FALSE, Primitives, MaxData)

\* the angles of the arcs a caller adds, in eighths of a turn
Angles == {0, 2, 4}

\* the centers of those arcs; their radius is Side
Centers == {Origin, Pair(Side, 0)}

PairAdd(a, b) == [x |-> a.x + b.x, y |-> a.y + b.y, rx |-> a.rx + b.rx, ry |-> a.ry + b.ry]

\* the three points of the arc adg_path_arc computes; the angle of the
\* second one is (end - start) / 2
ArcPoints(center, r, start, end) ==
    <<PairAdd(center, cpml_vector_set_length(cpml_vector_from_angle(start), r)),
      PairAdd(center, cpml_vector_set_length(cpml_vector_from_angle((end - start) \div 2), r)),
      PairAdd(center, cpml_vector_set_length(cpml_vector_from_angle(end), r))>>

\* an arc that always draws a line to its start point
ArcStartAlwaysLine(s, p0, moved) ==
    IF ~s.cp_is_valid
    THEN adg_path_append_array(s, CPML_MOVE, <<p0>>, moved, moved)
    ELSE adg_path_append_array(s, CPML_LINE, <<p0>>, moved, moved)

\* what adg_path_arc appends before the arc
ArcStart(s, p0, moved) ==
    IF ~s.cp_is_valid
    THEN adg_path_append_array(s, CPML_MOVE, <<p0>>, moved, moved)
    ELSE IF p0 # s.cp
    THEN adg_path_append_array(s, CPML_LINE, <<p0>>, moved, moved)
    ELSE s

\* the caller adds arcs while no operation is pending; the call record
\* keeps the center and the pair (start, end)
adg_path_arc ==
    \E center \in Centers : \E start, end \in Angles : \E moved1, moved2 \in BOOLEAN :
        LET p == ArcPoints(center, Side, start, end)
        IN /\ operation.action = ADG_ACTION_NONE
           /\ Len(array) + 5 <= MaxData
           /\ Commit(adg_path_append_array(ArcStart(State, p[1], moved1),
                                          CPML_ARC, <<p[2], p[3]>>, moved2, moved2),
                     "arc", CPML_ARC, <<center, Pair(start, end)>>)

\* the segments and paths a caller appends whole
Segments ==
    {<<Header(CPML_MOVE, 2), Point(Pair(Side, Side)), Header(CPML_LINE, 2), Point(Origin)>>}

CpmlPaths ==
    {<<Header(CPML_MOVE, 2), Point(Origin), Header(CPML_LINE, 2), Point(Pair(Side, 0)),
       Header(CPML_CLOSE, 1)>>}

adg_path_append_segment ==
    \E segment \in Segments : \E moved \in BOOLEAN :
        /\ Len(array) + Len(segment) <= MaxData
        /\ Commit(adg_path_append_vals(State, segment, moved), "append_segment", "", << >>)

adg_path_append_cpml_path ==
    \E cpml_path \in CpmlPaths : \E moved \in BOOLEAN :
        /\ Len(array) + Len(cpml_path) <= MaxData
        /\ Commit(adg_path_append_vals(State, cpml_path, moved), "append_cpml_path", "", << >>)

\* the first segment starts the buffer and is made of a MOVE and lines
CanReflect(arr) ==
    /\ Len(arr) > 2 /\ Len(arr) <= MaxReflect
    /\ arr[1].h /\ arr[1].type = CPML_MOVE
    /\ \A i \in 2..Len(FirstSegment(arr)) : arr[i].h => arr[i].type = CPML_LINE

adg_path_reflect ==
    \E moved \in BOOLEAN :
        /\ CanReflect(array)
        /\ Commit(adg_path_reflect_segment(State, moved), "reflect", "", << >>)

(***************************************************************************)
(* The canvas and its extents                                              *)
(***************************************************************************)
cairo_matrix_transform_distance(m, d) ==
    Pair(m.xx * d.x + m.xy * d.y, m.yx * d.x + m.yy * d.y)

cairo_matrix_transform_point(m, q) ==
    Pair(m.xx * q.x + m.xy * q.y + m.x0, m.yx * q.x + m.yy * q.y + m.y0)

\* cairo_matrix_invert of a matrix whose determinant is 1 or -1
cairo_matrix_invert(m) ==
    LET det == m.xx * m.yy - m.yx * m.xy
    IN Matrix(m.yy * det, -m.yx * det, -m.xy * det, m.xx * det,
              (m.xy * m.y0 - m.yy * m.x0) * det, (m.yx * m.x0 - m.xx * m.y0) * det)

\* adg_entity_arrange of the title block: its box, of Side by Delta, placed
\* by its global map and the global matrix of the canvas
TitleBlockExtents(c) ==
    [is_defined |-> TRUE,
     org |-> cairo_matrix_transform_point(c.global, c.map),
     size |-> cairo_matrix_transform_distance(c.global, Pair(Side, Delta))]

\* an arrange that adds the paddings to an explicit size too
ArrangeAlwaysPadding(c, content) ==
    IF ~content.is_defined THEN [c EXCEPT !.extents = content]
    ELSE LET org == cairo_matrix_transform_point(c.global, Origin)
             size == cairo_matrix_transform_distance(c.global, c.size)
             x == IF c.size.x > 0 THEN org.x ELSE content.org.x
             y == IF c.size.y > 0 THEN org.y ELSE content.org.y
             width == IF c.size.x > 0 THEN size.x ELSE content.size.x
             height == IF c.size.y > 0 THEN size.y ELSE content.size.y
         IN [c EXCEPT !.extents = Extents(x - c.left_padding, y - c.top_padding,
                                          width + c.left_padding + c.right_padding,
                                          height + c.top_padding + c.bottom_padding)]

\* _adg_arrange: content is what the arrange of the parent class left as
\* extents of the canvas
_adg_arrange(c, content) ==
    IF ~content.is_defined THEN [c EXCEPT !.extents = content]
    ELSE LET explicit == c.size.x > 0 \/ c.size.y > 0
             paper == [org |-> cairo_matrix_transform_point(c.global, Origin),
                       size |-> cairo_matrix_transform_distance(c.global, c.size)]
             x1 == IF explicit /\ c.size.x > 0 THEN paper.org.x ELSE content.org.x
             width1 == IF explicit /\ c.size.x > 0 THEN paper.size.x ELSE content.size.x
             y1 == IF explicit /\ c.size.y > 0 THEN paper.org.y ELSE content.org.y
             height1 == IF explicit /\ c.size.y > 0 THEN paper.size.y ELSE content.size.y
             x == IF c.size.x = 0 THEN x1 - c.left_padding ELSE x1
             width == IF c.size.x = 0 THEN width1 + c.left_padding + c.right_padding
                      ELSE width1
             y == IF c.size.y = 0 THEN y1 - c.top_padding ELSE y1
             height == IF c.size.y = 0 THEN height1 + c.top_padding + c.bottom_padding
                       ELSE height1
             title_block_extents == TitleBlockExtents(c)
             shift == Pair(x + width - title_block_extents.org.x
                               - title_block_extents.size.x,
                           y + height - title_block_extents.org.y
                               - title_block_extents.size.y)
             local == cairo_matrix_transform_distance(cairo_matrix_invert(c.global), shift)
         IN [c EXCEPT !.extents = Extents(x, y, width, height),
                      !.map = IF c.title_block /\ shift # Origin
                              THEN PairAdd(c.map, local) ELSE c.map]

\* the sizes a caller sets: 0 on an axis leaves it to the content
Sizes == {Pair(x, y) : x, y \in {0, Side}}

\* the paddings a caller sets: top, right, bottom and left; negative
\* values are allowed
Paddings ==
    {<<Delta, Delta, Delta, Delta>>, <<Delta, 0, -Delta, Side>>, <<0, Side, Delta, -Delta>>}

\* the global matrices of the canvas: the identity, a translation and the
\* exchange of the two axes
Matrices == {IdentityMatrix, Matrix(1, 0, 0, 1, Delta, Side), Matrix(0, 1, 1, 0, 0, 0)}

\* the extents the entities of the canvas may have, or none
Contents == {UndefinedExtents, Extents(0, 0, Side, Side), Extents(Delta, Side, Side, Delta)}

CanvasAlone ==
    UNCHANGED <<array, alloc, cp_is_valid, cp, last, over, operation, call, marker,
                cpml, convex, caller, style>>

adg_canvas_set_size ==
    \E size \in Sizes :
        /\ canvas' = [canvas EXCEPT !.size = size, !.op = "set_size"]
        /\ CanvasAlone

adg_canvas_set_paddings ==
    \E paddings \in Paddings :
        /\ canvas' = [canvas EXCEPT !.top_padding = paddings[1],
                                    !.right_padding = paddings[2],
                                    !.bottom_padding = paddings[3],
                                    !.left_padding = paddings[4],
                                    !.op = "set_paddings"]
        /\ CanvasAlone

adg_canvas_set_title_block ==
    \E title_block \in BOOLEAN :
        /\ canvas' = [canvas EXCEPT !.title_block = title_block, !.map = Origin,
                                    !.op = "set_title_block"]
        /\ CanvasAlone

\* the global matrix of the canvas is changed
adg_entity_set_global_map ==
    \E global \in Matrices :
        /\ canvas' = [canvas EXCEPT !.global = global, !.op = "set_global_map"]
        /\ CanvasAlone

adg_entity_arrange ==
    \E content \in Contents :
        /\ canvas' = [_adg_arrange(canvas, content) EXCEPT
                          !.op = "arrange", !.content = content]
        /\ CanvasAlone

NextCanvas ==
    \/ adg_canvas_set_size
    \/ adg_canvas_set_paddings
    \/ adg_canvas_set_title_block
    \/ adg_entity_set_global_map
    \/ adg_entity_arrange

SpecCanvas == Init /\ [][NextCanvas]_vars

(***************************************************************************)
(* The validated properties of the dimension style and of the table        *)
(***************************************************************************)
\* the properties that are lengths
Lengths == {"baseline-spacing", "beyond", "from-offset", "to-offset", "limits-spacing"}

Properties ==
    Lengths \cup {"color-dress", "line-dress", "max-dress", "min-dress", "value-dress",
                  "table-dress"}

\* the family of dresses a property accepts
FamilyOf(property) ==
    CASE property = "color-dress" -> "COLOR"
      [] property = "line-dress" -> "LINE"
      [] property = "table-dress" -> "TABLE"
      [] OTHER -> "FONT"

\* the dresses the callers use, each with its family
Dresses ==
    {[dress |-> "ADG_DRESS_COLOR", family |-> "COLOR"],
     [dress |-> "ADG_DRESS_COLOR_ANNOTATION", family |-> "COLOR"],
     [dress |-> "ADG_DRESS_LINE", family |-> "LINE"],
     [dress |-> "ADG_DRESS_LINE_FILL", family |-> "LINE"],
     [dress |-> "ADG_DRESS_FONT", family |-> "FONT"],
     [dress |-> "ADG_DRESS_FONT_QUOTE_ANNOTATION", family |-> "FONT"],
     [dress |-> "ADG_DRESS_FILL_HATCH", family |-> "FILL"],
     [dress |-> "ADG_DRESS_TABLE", family |-> "TABLE"]}

\* the values a caller gives to a property
ValuesOf(property) ==
    IF property \in Lengths THEN {Number(n) : n \in {-1, 0, 999}}
    ELSE {Dress(d.dress) : d \in Dresses}

\* the validation of the property: a length is not negative, a dress is of
\* the family of the property
IsValid(property, v) ==
    IF property \in Lengths THEN v.number >= 0
    ELSE \E d \in Dresses : d.dress = v.dress /\ d.family = FamilyOf(property)

\* a property that takes any value
SetUnchecked(s, v) == [s EXCEPT !.value = v]

\* g_object_set of the property: a value that is not valid is refused
\* with a warning
g_object_set(s, v) ==
    IF IsValid(s.property, v) THEN [s EXCEPT !.value = v] ELSE s

\* a new style or table, with the default value of the property
InitStyle ==
    /\ array = << >>
    /\ alloc = 0
    /\ cp_is_valid = FALSE
    /\ cp = Origin
    /\ last = NullPrimitive
    /\ over = NullPrimitive
    /\ operation = NoOperation
    /\ call = [op |-> "new", type |-> "", pairs |-> << >>,
               warnings |-> 0, resolved |-> "none"]
    /\ marker = NewMarker
    /\ cpml = NewCpml(NullCpmlPrimitive)
    /\ convex = NoConvex
    /\ caller = NoCaller
    /\ canvas = NewCanvas
    /\ \E property \in Properties :
           \E v \in {w \in ValuesOf(property) : IsValid(property, w)} :
               style = [NoStyle EXCEPT !.property = property, !.value = v, !.op = "new"]

StyleAlone ==
    UNCHANGED <<array, alloc, cp_is_valid, cp, last, over, operation, call, marker,
                cpml, convex, caller, canvas>>

\* the setter of the property: adg_dim_style_set_baseline_spacing and the
\* like, adg_table_set_table_dress
Setter ==
    \E v \in ValuesOf(style.property) :
        /\ style' = [g_object_set(style, v) EXCEPT !.op = "set", !.given = v,
                                                   !.previous = style.value]
        /\ StyleAlone

\* g_object_set called by the user of the style or of the table
GObjectSet ==
    \E v \in ValuesOf(style.property) :
        /\ style' = [g_object_set(style, v) EXCEPT !.op = "g_object_set", !.given = v,
                                                   !.previous = style.value]
        /\ StyleAlone

SpecStyle == InitStyle /\ [][Setter \/ GObjectSet]_vars

(***************************************************************************)
(* The convexity test of the fillet, on its own                            *)
(***************************************************************************)
\* the sides of the square, in both directions
Sides ==
    LET Corners == Pairs \cup {Pair(0, Side)}
    IN {prim \in [type : {CPML_LINE}, org : Corners, end : Corners] :
           IsAxisLine(prim) /\ prim.org # prim.end}

InitConvex ==
    /\ array = << >>
    /\ alloc = 0
    /\ cp_is_valid = FALSE
    /\ cp = Origin
    /\ last = NullPrimitive
    /\ over = NullPrimitive
    /\ operation = NoOperation
    /\ call = [op |-> "new", type |-> "", pairs |-> << >>,
               warnings |-> 0, resolved |-> "none"]
    /\ marker = NewMarker
    /\ cpml = NewCpml(NullCpmlPrimitive)
    /\ caller = NoCaller
    /\ canvas = NewCanvas
    /\ style = NoStyle
    /\ convex \in [primitive1 : Sides, primitive2 : Sides, result : {<< >>}]

\* the test is made on the two primitives, in the order the fillet gives
\* them and in the other order
IsConvex ==
    /\ convex.result = << >>
    /\ convex' = [convex EXCEPT
                      !.result = <<_adg_is_convex(convex.primitive1, convex.primitive2),
                                   _adg_is_convex(convex.primitive2, convex.primitive1)>>]
    /\ UNCHANGED <<array, alloc, cp_is_valid, cp, last, over, operation, call,
                   marker, cpml, caller, canvas, style>>

SpecConvex == InitConvex /\ [][IsConvex]_vars

Next ==
    \/ adg_path_append
    \/ adg_path_append_segment
    \/ adg_path_append_cpml_path
    \/ adg_path_reflect
    \/ adg_path_chamfer
    \/ adg_path_fillet

Spec == Init /\ [][Next]_vars

\* paths made of lines, with their chamfers and fillets
NextLines ==
    \/ adg_path_line_to
    \/ adg_path_chamfer
    \/ adg_path_fillet

SpecLines == Init /\ [][NextLines]_vars

\* paths made of lines that are cleared, used again and destroyed
NextClear ==
    \/ adg_path_line_to
    \/ adg_path_chamfer
    \/ adg_path_fillet
    \/ adg_model_clear
    \/ adg_path_destroy

SpecClear == Init /\ [][NextClear]_vars

\* the builder with the primitives appended whole
NextPrimitive ==
    \/ adg_path_append
    \/ adg_path_append_primitive
    \/ adg_path_chamfer
    \/ adg_path_fillet

SpecPrimitive == Init /\ [][NextPrimitive]_vars

\* paths made of lines and arcs
NextArc ==
    \/ adg_path_line_to
    \/ adg_path_arc

SpecArc == Init /\ [][NextArc]_vars

\* paths made of lines whose corners are chamfered one after the other
NextTrims ==
    \/ AppendOf({CPML_MOVE, CPML_LINE}, MaxTrimmed)
    \/ ChamferOf(Trims)

SpecTrims == Init /\ [][NextTrims]_vars

\* the builder and a caller that keeps the primitives it has appended
AppendKept ==
    AppendPrimitive(TRUE, {primitive \in Primitives : primitive.data[1].type = CPML_LINE},
                    MaxKept)

adg_path_move_to == AppendOf({CPML_MOVE}, MaxKept)

NextCaller ==
    \/ adg_path_move_to
    \/ AppendKept
    \/ adg_path_chamfer
    \/ adg_path_fillet

SpecCaller == Init /\ [][NextCaller]_vars

\* a path appended whole, then lines and closes, and chamfers
SpecClosed ==
    Init /\ [][\/ adg_path_append_cpml_path
               \/ AppendOf({CPML_LINE, CPML_CLOSE}, MaxClosed)
               \/ adg_path_chamfer]_vars

\* the calls the builder's own state machine is made of
NextBuilder ==
    \/ adg_path_append
    \/ adg_path_chamfer
    \/ adg_path_fillet

SpecBuilder == Init /\ [][NextBuilder]_vars

TypeOK ==
    /\ cp_is_valid \in BOOLEAN
    /\ operation.action \in {ADG_ACTION_NONE, ADG_ACTION_CHAMFER, ADG_ACTION_FILLET}
    /\ last.data \in 0..Len(array)
    /\ over.data \in 0..Len(array)

(***************************************************************************)
(* Properties                                                              *)
(***************************************************************************)
\* buffer, current point, last, over and pending operation are left alone
PathUnchanged ==
    /\ array' = array
    /\ cp_is_valid' = cp_is_valid
    /\ cp' = cp
    /\ last' = last
    /\ over' = over
    /\ operation' = operation

\* the call stored a primitive: no pair the type needs was NULL
Stored(c) == c.op = "append" /\ Len(c.pairs) = _adg_primitive_length(c.type) - 1

Distance(a, b) == Abs(b.x - a.x) + Abs(b.y - a.y)

\* the point at distance d from a point, towards another one
Along(from, to, d) ==
    Pair(from.x + Sgn(to.x - from.x) * d, from.y + Sgn(to.y - from.y) * d)

\* C1: an append of a LINE, ARC, CURVE or CLOSE made while no current point
\* is defined warns and leaves the buffer, the current point, the last and
\* over primitives and the pending operation as they were.
C1_AppendWithoutCurrentPoint ==
    [][(call'.op = "append" /\ call'.type # CPML_MOVE /\ ~cp_is_valid)
           => (PathUnchanged /\ call'.warnings > 0)]_vars

\* C2: when a primitive is appended while a chamfer or a fillet is pending,
\* no operation is pending after the call, whether the resolution succeeded
\* or failed.
C2_AppendClearsPending ==
    [][(Stored(call') /\ operation.action # ADG_ACTION_NONE)
           => operation'.action = ADG_ACTION_NONE]_vars

\* C3: a chamfer(d1, d2) pending on the line A, resolved by the append of the
\* line B with 0 < d1 < length(A) and 0 < d2 < length(B), moves the end of A
\* back by d1 along A, stores a connector LINE ending d2 along B from the
\* corner and then B with its own end point.
C3_ChamferOnTwoLines ==
    [][(/\ Stored(call')
        /\ operation.action = ADG_ACTION_CHAMFER
        /\ 0 < operation.delta1
        /\ operation.delta1 < Distance(PrimitiveAt(State, last).org, PrimitiveAt(State, last).end)
        /\ 0 < operation.delta2
        /\ operation.delta2 < Distance(cp, call'.pairs[1]))
           => LET A == PrimitiveAt(State, last)
                  end == last.data + 1
                  B == call'.pairs[1]
              IN array' = [array EXCEPT ![end] = Point(Along(A.end, A.org, operation.delta1))]
                          \o <<Header(CPML_LINE, 2), Point(Along(cp, B, operation.delta2)),
                               Header(CPML_LINE, 2), Point(B)>>]_vars

\* move (0,0), line (10,0), chamfer(2,2), line (10,10) has given
\* LINE (0,0)-(8,0), LINE (8,0)-(10,2), LINE (10,2)-(10,10)
C3_Witness ==
    /\ call.op = "append" /\ call.resolved = "done"
    /\ operation.delta1 = 2 /\ operation.delta2 = 2
    /\ array = <<Header(CPML_MOVE, 2), Point(Pair(0, 0)),
                 Header(CPML_LINE, 2), Point(Pair(8, 0)),
                 Header(CPML_LINE, 2), Point(Pair(10, 2)),
                 Header(CPML_LINE, 2), Point(Pair(10, 10))>>

\* C4: when d1 >= length(A) or d2 >= length(B) at the append of B, a warning
\* is emitted, no stored point changes, no connector is inserted and B is
\* stored as given: the buffer is the old one followed by B.
C4_ChamferFailure ==
    [][(/\ Stored(call')
        /\ operation.action = ADG_ACTION_CHAMFER
        /\ \/ operation.delta1 >= Distance(PrimitiveAt(State, last).org,
                                           PrimitiveAt(State, last).end)
           \/ operation.delta2 >= Distance(cp, call'.pairs[1]))
           => /\ array' = array \o <<Header(CPML_LINE, 2), Point(call'.pairs[1])>>
              /\ call'.warnings > 0]_vars

\* move (0,0), line (10,0), chamfer(10,2), line (10,10) has failed
C4_Witness ==
    /\ call.op = "append" /\ call.resolved = "failed"
    /\ operation.delta1 = Side /\ operation.delta2 = Delta
    /\ array = <<Header(CPML_MOVE, 2), Point(Pair(0, 0)),
                 Header(CPML_LINE, 2), Point(Pair(Side, 0)),
                 Header(CPML_LINE, 2), Point(Pair(Side, Side))>>

\* C5: a chamfer or a fillet requested when no primitive was appended yet,
\* or while an operation is pending, warns and changes nothing, the kind and
\* the parameters of the pending operation included.
C5_RequestRefused ==
    [][(/\ call'.op \in {"chamfer", "fillet"}
        /\ (last.data = 0 \/ operation.action # ADG_ACTION_NONE))
           => (PathUnchanged /\ call'.warnings > 0)]_vars

\* a chamfer was requested while a fillet was pending
C5_Witness ==
    /\ call.op = "chamfer" /\ call.warnings > 0
    /\ operation.action = ADG_ACTION_FILLET

\* C6: after an append that stored a MOVE, LINE, ARC or CURVE the current
\* point is defined and is the end point of that primitive; after one that
\* stored a CLOSE the current point is undefined.
C6_CurrentPointAfterAppend ==
    Stored(call) =>
        IF call.type = CPML_CLOSE THEN ~cp_is_valid
        ELSE cp_is_valid /\ cp = call.pairs[Len(call.pairs)]

\* a CLOSE was appended to a segment with a current point
C6_Witness ==
    /\ Stored(call) /\ call.type = CPML_CLOSE
    /\ ~cp_is_valid /\ over.org # 0

\* the header of the primitive stored right before the one at header i
Predecessor(arr, i) ==
    LET headers == {j \in 1..(i - 1) : arr[j].h}
    IN IF headers = {} THEN 0 ELSE CHOOSE j \in headers : \A k \in headers : k <= j

\* C7: after an append that stored the primitive P, last is P, the final
\* primitive of the buffer, and over is the primitive stored right before P.
C7_OverIsPrevious ==
    Stored(call) =>
        /\ last.data = Len(array) - _adg_primitive_length(call.type) + 1
        /\ ~last.dangling
        /\ over.data = Predecessor(array, last.data)
        /\ ~over.dangling

\* C8: whenever a current point is defined, it is the final point stored in
\* the buffer.
C8_CurrentPointIsFinalPoint ==
    cp_is_valid =>
        /\ Len(array) > 0
        /\ ~array[Len(array)].h
        /\ cp = cpml_pair_from_cairo(array[Len(array)])

\* every primitive but a MOVE follows a primitive that left a current point
Continuous(arr) ==
    \A i \in 1..Len(arr) :
        (arr[i].h /\ arr[i].type # CPML_MOVE) =>
            (Predecessor(arr, i) # 0 /\ arr[Predecessor(arr, i)].type # CPML_CLOSE)

\* C9: a chamfer or a fillet requested while the last primitive is a CLOSE
\* is resolved inside the call: no operation is pending when it returns.
C9_RequestOnCloseResolved ==
    [][(/\ call'.op \in {"chamfer", "fillet"}
        /\ Continuous(array)
        /\ last.data # 0
        /\ operation.action = ADG_ACTION_NONE
        /\ array[last.data].type = CPML_CLOSE)
           => operation'.action = ADG_ACTION_NONE]_vars

\* C10: a chamfer or a fillet requested on a CLOSE that cannot be applied
\* fails before it changes anything: the buffer still ends with the CLOSE,
\* the current point is still undefined and no operation is pending.
C10_FailureOnCloseChangesNothing ==
    [][(/\ call'.op \in {"chamfer", "fillet"}
        /\ Continuous(array)
        /\ last.data # 0
        /\ operation.action = ADG_ACTION_NONE
        /\ array[last.data].type = CPML_CLOSE
        /\ call'.resolved = "failed")
           => /\ array' = array
              /\ ~cp_is_valid'
              /\ operation'.action = ADG_ACTION_NONE]_vars

\* C11: clearing the path leaves an empty buffer, no current point, no last
\* and no over primitive and no pending operation; clear and destroy warn
\* if and only if a chamfer or a fillet was still pending.
C11_ClearResets ==
    [][(call'.op \in {"clear", "destroy"})
           => /\ (call'.warnings > 0) <=> (operation.action # ADG_ACTION_NONE)
              /\ call'.op = "clear" =>
                     /\ array' = << >>
                     /\ ~cp_is_valid'
                     /\ last'.data = 0
                     /\ over'.data = 0
                     /\ operation'.action = ADG_ACTION_NONE]_vars

\* a path with two primitives and a pending operation has been cleared
C11_Witness ==
    /\ call.op = "clear" /\ call.warnings > 0
    /\ last.org # 0 /\ over.org # 0
    /\ array = << >> /\ operation.action = ADG_ACTION_NONE

\* the org of the primitive given to adg_path_append_primitive: << >> is NULL
OrgOf(c) == SubSeq(c.pairs, 1, Len(c.pairs) - (_adg_primitive_length(c.type) - 1))

\* C12: adg_path_append_primitive called with a primitive whose origin is
\* not the current point, or on a path with no current point, fails and
\* leaves buffer, current point, last, over and pending operation alone.
C12_AppendPrimitiveChecksOrigin ==
    [][(/\ call'.op = "append_primitive"
        /\ (~cp_is_valid \/ OrgOf(call') # <<cp>>))
           => PathUnchanged]_vars

C17_MissingPair ==
    [][(/\ call'.op = "append"
        /\ Len(call'.pairs) < _adg_primitive_length(call'.type) - 1)
           => (PathUnchanged /\ call'.warnings > 0)]_vars

\* an arc_to with a NULL pair has failed while a fillet was pending
C17_Witness ==
    /\ call.op = "append" /\ call.type = CPML_ARC /\ Len(call.pairs) = 1
    /\ call.warnings > 0
    /\ operation.action = ADG_ACTION_FILLET

\* p is at distance r from center; a coordinate is x + rx * sqrt(2)/2
OnCircle(p, center, r) ==
    LET dx == p.x - center.x
        dy == p.y - center.y
        drx == p.rx - center.rx
        dry == p.ry - center.ry
    IN /\ 2 * dx * dx + 2 * dy * dy + drx * drx + dry * dry = 2 * r * r
       /\ dx * drx + dy * dry = 0

\* the buffer holds LINE (0,0)-(Side - r,0), an ARC of radius r centred at
\* (Side - r, r) up to (Side, r) and LINE (Side, r)-(Side, Side)
Filleted(arr, r) ==
    /\ Len(arr) = 9
    /\ SubSeq(arr, 1, 5) = <<Header(CPML_MOVE, 2), Point(Origin),
                             Header(CPML_LINE, 2), Point(Pair(Side - r, 0)),
                             Header(CPML_ARC, 3)>>
    /\ ~arr[6].h
    /\ OnCircle(cpml_pair_from_cairo(arr[6]), Pair(Side - r, r), r)
    /\ cpml_pair_from_cairo(arr[6]) \notin {Pair(Side - r, 0), Pair(Side, r)}
    /\ SubSeq(arr, 7, 9) = <<Point(Pair(Side, r)),
                             Header(CPML_LINE, 2), Point(Pair(Side, Side))>>

\* C13: move (0,0), line (10,0), fillet(2), line (10,10) gives three
\* primitives, a LINE ending at (8,0), an ARC of radius 2 centred at (8,2)
\* from (8,0) to (10,2) and a LINE from (10,2) to (10,10), and leaves no
\* operation pending (10 is Side, 2 is Delta).
C13_FilletOnRightCorner ==
    [][(/\ Stored(call')
        /\ operation.action = ADG_ACTION_FILLET
        /\ operation.delta1 = Delta
        /\ array = <<Header(CPML_MOVE, 2), Point(Origin),
                     Header(CPML_LINE, 2), Point(Pair(Side, 0))>>
        /\ call'.pairs = <<Pair(Side, Side)>>)
           => /\ Filleted(array', Delta)
              /\ operation'.action = ADG_ACTION_NONE]_vars

\* the scenario has been played: the through point of the arc is
\* (Side - Delta, Delta) + Delta * (sqrt(2)/2, -sqrt(2)/2)
C13_Witness ==
    /\ call.op = "append" /\ call.resolved = "done"
    /\ Filleted(array, Delta)
    /\ array[6] = Point([x |-> Side - Delta, y |-> Delta, rx |-> Delta, ry |-> -Delta])
    /\ operation.action = ADG_ACTION_NONE

\* two lines that have the same direction or opposite ones
Parallel(A, B) ==
    (A.end.x - A.org.x) * (B.end.y - B.org.y) = (A.end.y - A.org.y) * (B.end.x - B.org.x)

\* C14: when the line A and the appended line B, offset by the radius, do
\* not intersect (they are parallel), the fillet warns, inserts no ARC and
\* changes no stored point: the buffer is the old one followed by B as given.
C14_FilletFailure ==
    [][(/\ Stored(call')
        /\ operation.action = ADG_ACTION_FILLET
        /\ Parallel(PrimitiveAt(State, last), [org |-> cp, end |-> call'.pairs[1]]))
           => /\ array' = array \o <<Header(CPML_LINE, 2), Point(call'.pairs[1])>>
              /\ call'.warnings > 0]_vars

\* move (Side,0), line (0,0), fillet, line (Side,0): B goes back along A
C14_Witness ==
    /\ call.op = "append" /\ call.resolved = "failed"
    /\ operation.action = ADG_ACTION_FILLET
    /\ array = <<Header(CPML_MOVE, 2), Point(Pair(Side, 0)),
                 Header(CPML_LINE, 2), Point(Origin),
                 Header(CPML_LINE, 2), Point(Pair(Side, 0))>>

\* the data adg_path_append builds for a call
DataOf(c) == <<Header(c.type, Len(c.pairs) + 1)>> \o [i \in 1..Len(c.pairs) |-> Point(c.pairs[i])]

\* C16: a request made after A involves A and the next primitive B only:
\* once B has been appended, whether the request could be applied or not,
\* the append of the following primitive inserts no connector and changes
\* no stored point.
C16_OnlyNextPrimitive ==
    [][(/\ Stored(call) /\ call.resolved # "none"
        /\ Stored(call'))
           => array' = array \o DataOf(call')]_vars

\* C18: a deep duplicate has the org and the data the source had when it was
\* duplicated, in memory of its own, whatever is written to the source
\* afterwards, and a NULL org, data or segment of the source is NULL in the
\* duplicate; a shallow duplicate has the pointers of the source.
C18_DeepDupIsIndependent ==
    /\ cpml.kind = "deep" =>
           /\ ContentOf(cpml.memory, cpml.dst) = cpml.at_dup
           /\ cpml.src.org = 0 => cpml.dst.org = 0
           /\ cpml.src.data = 0 => cpml.dst.data = 0
           /\ cpml.src.segment = 0 => cpml.dst.segment = 0
           /\ cpml.dst.org # 0 => cpml.dst.org > Len(SourceMemory)
           /\ cpml.dst.data # 0 => cpml.dst.data > Len(SourceMemory)
    /\ cpml.kind = "shallow" => cpml.dst = cpml.src

\* the org and the end point of the source have been written after a deep
\* duplication: the duplicate has kept the old ones
C18_Witness ==
    /\ cpml.kind = "deep"
    /\ cpml.src.org # 0 /\ cpml.src.data # 0 /\ cpml.src.segment = 0
    /\ cpml.memory[cpml.src.org] # cpml.memory[cpml.dst.org]
    /\ cpml.memory[cpml.src.data + 1] # cpml.memory[cpml.dst.data + 1]

\* C19: after adg_marker_set_path with a new path that has a segment,
\* n-segment is 1; after the path is set to NULL or destroyed, the path of
\* the marker is NULL and n-segment is 0.
C19_SetPathSelectsFirstSegment ==
    [][/\ (/\ call'.op = "set_path" /\ call'.type = "path"
            /\ marker.path = "NULL"
            /\ SegmentStarts(array) # {})
               => (marker'.path = "path" /\ marker'.n_segment = 1)
       /\ ((call'.op = "set_path" /\ call'.type = "NULL") \/ call'.op = "destroy")
               => (marker'.path = "NULL" /\ marker'.n_segment = 0)]_vars

\* C20: adg_marker_set_n_segment with n > 0 on a marker whose path has at
\* least n segments makes the n-th segment of the path the segment of the
\* marker, keeps a copy of its items as backup segment and leaves
\* n-segment equal to n.
C20_SetNSegmentRetrieves ==
    [][(/\ call'.op = "set_n_segment"
        /\ call'.pairs[1].x > 0
        /\ marker.path = "path"
        /\ call'.pairs[1].x <= Cardinality(SegmentStarts(array)))
           => /\ marker'.n_segment = call'.pairs[1].x
              /\ marker'.segment = NthSegment(array', call'.pairs[1].x)
              /\ marker'.backup_segment =
                     adg_segment_deep_dup(array', marker'.segment)]_vars

\* the cross and the dot product of the end tangent of primitive1 and the
\* start tangent of primitive2: the counterclockwise angle from the first
\* to the second is greater than a half turn when the cross product is
\* negative
Cross(primitive1, primitive2) ==
    LET v1 == cpml_primitive_put_vector_at(primitive1)
        v2 == cpml_primitive_put_vector_at(primitive2)
    IN v1.x * v2.y - v1.y * v2.x

Dot(primitive1, primitive2) ==
    LET v1 == cpml_primitive_put_vector_at(primitive1)
        v2 == cpml_primitive_put_vector_at(primitive2)
    IN v1.x * v2.x + v1.y * v2.y

\* C23: _adg_is_convex(A, B) is true if and only if the counterclockwise
\* angle from the end tangent of A to the start tangent of B, in [0, 2*pi),
\* is greater than pi: it is false for collinear tangents and for an exact
\* reversal, and for any other pair of directions it is true in exactly one
\* of the two orders.
C23_ConvexIffOverHalfTurn ==
    convex.result # << >> =>
        LET A == convex.primitive1
            B == convex.primitive2
        IN /\ convex.result[1] = (Cross(A, B) < 0)
           /\ Cross(A, B) = 0 => (~convex.result[1] /\ ~convex.result[2])
           /\ Cross(A, B) # 0 => (convex.result[1] # convex.result[2])

\* A goes up and B goes right: their angles are pi/2 and 0, and the angle
\* from A to B is three quarters of a turn
C23_Witness ==
    /\ convex.result = <<TRUE, FALSE>>
    /\ cpml_vector_angle(cpml_primitive_put_vector_at(convex.primitive1)) = 1
    /\ cpml_vector_angle(cpml_primitive_put_vector_at(convex.primitive2)) = 0

\* C25: after a successful chamfer(d1, d2) requested on a CLOSE the segment
\* has no CLOSE: the CLOSE has become a LINE that ends d1 before the start
\* of the segment, the point of the leading MOVE has moved d2 along the
\* first primitive, a connector LINE to that point ends the buffer, and the
\* current point is defined and is that point.
C25_ChamferOnClose ==
    [][(/\ call'.op = "chamfer"
        /\ call'.resolved = "done"
        /\ last.data # 0
        /\ array[last.data].type = CPML_CLOSE)
           => LET n == Len(array)
                  segment == LastSegment(array)
                  start == cpml_pair_from_cairo(array[segment + 1])
                  first == segment + 2
                  moved == Along(start,
                                 cpml_pair_from_cairo(array[first + array[first].length - 1]),
                                 operation'.delta2)
              IN /\ Len(array') = n + 3
                 /\ \A i \in segment..(n + 3) :
                        array'[i].h => array'[i].type # CPML_CLOSE
                 /\ array'[n] = Header(CPML_LINE, 2)
                 /\ array'[n + 1] = Point(Along(start, cpml_pair_from_cairo(array[n - 1]),
                                                operation'.delta1))
                 /\ array'[segment + 1] = Point(moved)
                 /\ array'[n + 2] = Header(CPML_LINE, 2)
                 /\ array'[n + 3] = Point(moved)
                 /\ \A i \in 1..n : i \notin {segment + 1, n} => array'[i] = array[i]
                 /\ cp_is_valid' /\ cp' = moved
                 /\ operation'.action = ADG_ACTION_NONE]_vars

\* the primitive a pointer denotes once the call has returned
PrimitiveAfter(p) == PrimitiveAt([array |-> array'], p)

\* C24: the chamfer(d1, d2) resolved by the append of the line B leaves B,
\* as last primitive, with the length of B less d2, and A with its length
\* less d1, both greater than 0; and the chamfer(e1, e2) resolved by the
\* next append fails if and only if e1 is not less than the length B has
\* been left with or e2 is not less than the length of the line appended:
\* trimmed lines keep a positive length and the two trims of a line do not
\* overlap.
C24_SecondChamferOnRemainingLength ==
    [][(/\ Stored(call') /\ call'.type = CPML_LINE
        /\ operation.action = ADG_ACTION_CHAMFER)
           => LET A == PrimitiveAt(State, last)
                  lengthB == Distance(cp, call'.pairs[1])
              IN /\ call'.resolved = "failed"
                        <=> (\/ operation.delta1 >= cpml_primitive_get_length(A)
                             \/ operation.delta2 >= lengthB)
                 /\ call'.resolved = "done" =>
                        /\ PrimitiveAfter(last).org = A.org
                        /\ cpml_primitive_get_length(PrimitiveAfter(last))
                               = cpml_primitive_get_length(A) - operation.delta1
                        /\ cpml_primitive_get_length(PrimitiveAfter(last)) > 0
                        /\ PrimitiveAfter(last').end = call'.pairs[1]
                        /\ cpml_primitive_get_length(PrimitiveAfter(last'))
                               = lengthB - operation.delta2
                        /\ cpml_primitive_get_length(PrimitiveAfter(last')) > 0]_vars

\* the line from (10,0) to (10,10) has been trimmed at its start by Delta;
\* a chamfer whose first delta is all that is left of it has failed
C24_Witness ==
    /\ Stored(call) /\ call.resolved = "failed"
    /\ operation = [action |-> ADG_ACTION_CHAMFER, delta1 |-> Side - Delta, delta2 |-> Delta]
    /\ array = <<Header(CPML_MOVE, 2), Point(Origin),
                 Header(CPML_LINE, 2), Point(Pair(Side - Delta, 0)),
                 Header(CPML_LINE, 2), Point(Pair(Side, Delta)),
                 Header(CPML_LINE, 2), Point(Pair(Side, Side)),
                 Header(CPML_LINE, 2), Point(Pair(Side, 0))>>

\* C26: adg_path_append_primitive leaves the primitive of the caller as it
\* was: its org and its data are those the call was given, also when the
\* call resolved a pending chamfer or fillet with it.
C26_CallerPrimitiveUntouched ==
    call.op = "append_primitive" =>
        LET content == ContentOf(caller.memory, caller.src)
        IN /\ content.org = [i \in 1..Len(OrgOf(call)) |-> Point(OrgOf(call)[i])]
           /\ content.data = <<Header(call.type, _adg_primitive_length(call.type))>>
                                \o [i \in 1..(_adg_primitive_length(call.type) - 1) |->
                                       Point(call.pairs[Len(OrgOf(call)) + i])]

\* a pending chamfer has been resolved with the primitive of the caller: the
\* primitive stored starts at the end of the connector, no longer at the
\* org the caller gave
C26_Witness ==
    /\ call.op = "append_primitive" /\ call.resolved = "done"
    /\ caller.src.org # 0
    /\ cpml_pair_from_cairo(array[last.org]) # cpml_pair_from_cairo(caller.memory[caller.src.org])

\* C21: after the arrange of a canvas whose entities have extents, on each
\* axis: a size greater than 0 gives the canvas the extent that starts where
\* the global matrix maps the origin and is as long as the global matrix
\* maps the size, whatever the content and the paddings are; a size of 0
\* gives it the extent of the content, started earlier by the leading
\* padding and made longer by the two paddings of the axis.
C21_ArrangeExtents ==
    (canvas.op = "arrange" /\ canvas.content.is_defined) =>
        LET org == cairo_matrix_transform_point(canvas.global, Origin)
            size == cairo_matrix_transform_distance(canvas.global, canvas.size)
            content == canvas.content
            extents == canvas.extents
        IN /\ extents.is_defined
           /\ canvas.size.x > 0 =>
                  (extents.org.x = org.x /\ extents.size.x = size.x)
           /\ canvas.size.y > 0 =>
                  (extents.org.y = org.y /\ extents.size.y = size.y)
           /\ canvas.size.x = 0 =>
                  /\ extents.org.x = content.org.x - canvas.left_padding
                  /\ extents.size.x = content.size.x + canvas.left_padding
                                           + canvas.right_padding
           /\ canvas.size.y = 0 =>
                  /\ extents.org.y = content.org.y - canvas.top_padding
                  /\ extents.size.y = content.size.y + canvas.top_padding
                                           + canvas.bottom_padding

\* a canvas as wide as Side and as high as its content, moved by its
\* global matrix: the paddings count for the height only
C21_Witness ==
    /\ canvas.op = "arrange"
    /\ canvas.size = Pair(Side, 0)
    /\ canvas.global = Matrix(1, 0, 0, 1, Delta, Side)
    /\ canvas.content = Extents(Delta, Side, Side, Delta)
    /\ canvas.top_padding = Delta /\ canvas.bottom_padding = Delta
    /\ canvas.left_padding = Delta /\ canvas.right_padding = Delta
    /\ canvas.extents = Extents(Delta, Side - Delta, Side, 3 * Delta)

====
